---- MODULE Spec2Model ----
(***************************************************************************)
(* Model of src/main.rs: a terminal dashboard.  main() enters raw mode and *)
(* the alternate screen, builds the coloured menu, then loops: one render  *)
(* pass (terminal.draw), one poll of 100 ms, at most one event read and    *)
(* handled.  Esc breaks the loop and the teardown follows.  Every I/O call *)
(* is followed by `?`: an error returns from main at once.                 *)
(*                                                                         *)
(* Strings of the input buffer are sequences of characters (String::push   *)
(* and String::pop work on whole chars).  Indices are 0-based as in the    *)
(* source; TLA+ sequences are 1-based, so menu_items[selected] is written  *)
(* menu_items[selected + 1].  The page texts are the source's, with the    *)
(* typographic apostrophe and the em dash written ' and - (ASCII).         *)
(***************************************************************************)
EXTENDS Integers, Sequences, FiniteSets, TLC

VARIABLES
    pc,            \* position in main: the call about to be made (main.rs:121-264)
    result,        \* "running", "Ok", or the name of the call whose error main returned
    rawMode,       \* terminal is in raw mode (main.rs:122, 256)
    altScreen,     \* terminal shows the alternate screen (main.rs:124, 259)
    mouseCapture,  \* mouse capture is enabled (main.rs:124, 260)
    menu_items,    \* Vec<(&str, Color)>, built once after Terminal::new (main.rs:137-149)
    selected,      \* selected index, 0-based (main.rs:151)
    state,         \* ListState selection: Some(i) is i, None is -1 (main.rs:152-153)
    input,         \* the input buffer (main.rs:155)
    screen,        \* what the last render pass drew (main.rs:158-226)
    event,         \* the event the last event::read() returned (main.rs:230)
    before,        \* history: the input buffer when `event` was read
    prevEvent,     \* history: the event read before `event`
    prevBefore     \* history: the input buffer when `prevEvent` was read

vars == <<pc, result, rawMode, altScreen, mouseCapture, menu_items, selected,
          state, input, screen, event, before, prevEvent, prevBefore>>

-----------------------------------------------------------------------------
(* Bounds of the model *)

\* longest input buffer the model types (String itself is unbounded)
MaxInput == 3

\* the characters the model types
Chars == {"a", "b", "c", "q"}

\* key codes the match has no arm for
OtherKeys == {"Tab"}

\* events that are not Event::Key
NonKeyTypes == {"Mouse", "Resize"}

-----------------------------------------------------------------------------
(* Static data *)

raw_menu_items ==
    << "Home", "Items", "City", "Job", "Gym", "Properties", "Education",
       "Crimes", "Missions", "Newspaper", "Jail", "Hospital", "Casino",
       "Forums", "Hall of Fame", "Faction", "Recruit Citizens", "Calendar", "Rules" >>

unread == {"Newspaper", "Crimes", "Messages"}

important == {"Hospital", "Jail", "Crimes"}

get_page_info(page) ==
    CASE page = "Home" ->
           << "Welcome to your home screen. Here you'll find your basic stats and property info.",
              "Stats overview", "Current property info" >>
      [] page = "Items" ->
           << "This is your inventory. All your collected items will be listed here.",
              "You have no items yet.", "Use or discard items here." >>
      [] page = "City" ->
           << "Visit shops, explore zones, and interact with the city here.",
              "City zones overview", "Shops and NPCs" >>
      [] page = "Job" ->
           << "Check your current job, salary, and available tasks.",
              "Job title and salary", "Current tasks" >>
      [] page = "Gym" ->
           << "Train your stats here. Strength, speed, defense-you name it.",
              "Stat training panel", "Recent training log" >>
      [] page = "Properties" ->
           << "Buy, sell, or upgrade your properties.",
              "Owned properties", "Market listings" >>
      [] page = "Education" ->
           << "Enroll in courses to gain skills that unlock new opportunities.",
              "Current courses", "Completed courses" >>
      [] page = "Crimes" ->
           << "Perform crimes to gain money and experience. Risk vs reward!",
              "Available crimes", "Crime success history" >>
      [] page = "Missions" ->
           << "Complete missions for rewards and progression.",
              "Current missions", "Completed missions" >>
      [] page = "Newspaper" ->
           << "Read updates, events, and changes in the game world.",
              "Today's headlines", "Archived news" >>
      [] page = "Jail" ->
           << "See your jail status and how to escape or wait it out.",
              "Time remaining", "Escape options" >>
      [] page = "Hospital" ->
           << "Check your injuries and time to recover.",
              "Injury status", "Recovery tips" >>
      [] page = "Casino" ->
           << "Try your luck with slots, blackjack, and roulette.",
              "Available games", "Last win history" >>
      [] page = "Forums" ->
           << "Chat with other players or browse announcements.",
              "Recent threads", "Your replies" >>
      [] page = "Hall of Fame" ->
           << "View top players ranked by wealth, strength, and more.",
              "Leaderboard", "Your rank" >>
      [] page = "Faction" ->
           << "Manage or join a faction to collaborate with others.",
              "Faction info", "Member list" >>
      [] page = "Recruit Citizens" ->
           << "Invite new players and earn rewards.",
              "Referral link", "Recruit rewards" >>
      [] page = "Calendar" ->
           << "Track daily and weekly events.",
              "Today's events", "Upcoming events" >>
      [] page = "Rules" ->
           << "Review game rules and avoid punishment.",
              "Most broken rules", "Reporting system" >>
      [] OTHER ->
           << "This page is under construction.", "Left Box", "Right Box" >>

\* mutant: the unread set is tested before the important set
color_unread_first(label) ==
    IF label \in unread THEN "Green"
    ELSE IF label \in important THEN "Red"
    ELSE "Gray"

\* the closure of the map at main.rs:139-148
color(label) ==
    IF label \in important THEN "Red"
    ELSE IF label \in unread THEN "Green"
    ELSE "Gray"

build_menu_items ==
    [i \in 1..Len(raw_menu_items) |-> <<raw_menu_items[i], color(raw_menu_items[i])>>]

-----------------------------------------------------------------------------
(* Events *)

KeyEvent(code, c) == [type |-> "Key", code |-> code, c |-> c]

NonKeyEvent(t) == [type |-> t, code |-> "", c |-> ""]

NoEvent == [type |-> "None", code |-> "", c |-> ""]

CharEvents == {KeyEvent("Char", c) : c \in Chars}

Events ==
    CharEvents
    \cup {KeyEvent(k, "") : k \in {"Backspace", "Enter", "Esc", "Up", "Down"} \cup OtherKeys}
    \cup {NonKeyEvent(t) : t \in NonKeyTypes}

-----------------------------------------------------------------------------
(* The arms of `match key.code` *)

\* mutant: the new character goes to the front
push_front(s, c) == <<c>> \o s

\* String::push
push(s, c) == Append(s, c)

\* mutant: the first character is removed, not the last
pop_first(s) == IF Len(s) = 0 THEN s ELSE Tail(s)

\* String::pop, its result dropped
pop(s) == IF Len(s) = 0 THEN s ELSE SubSeq(s, 1, Len(s) - 1)

\* mutant: Up without the guard
move_up_unguarded(sel) == sel - 1

\* KeyCode::Up
move_up(sel) == IF sel > 0 THEN sel - 1 ELSE sel

\* mutant: Down compares with len, not len - 1
move_down_off_by_one(sel, len) == IF sel < len THEN sel + 1 ELSE sel

\* KeyCode::Down
move_down(sel, len) == IF sel < len - 1 THEN sel + 1 ELSE sel

\* mutant: 'q' quits as well
breaks_on_q(e) == e.type = "Key" /\ (e.code = "Esc" \/ (e.code = "Char" /\ e.c = "q"))

\* the event reaches the `break` arm
breaks(e) == e.type = "Key" /\ e.code = "Esc"

\* mutant: Enter keeps the buffer
input_after_enter_kept(e, s) ==
    IF e.type # "Key" THEN s
    ELSE CASE e.code = "Char" -> push(s, e.c)
           [] e.code = "Backspace" -> pop(s)
           [] e.code = "Enter" -> s
           [] OTHER -> s

\* mutant: the wildcard arm clears the buffer
input_after_other_clears(e, s) ==
    IF e.type # "Key" THEN s
    ELSE CASE e.code = "Char" -> push(s, e.c)
           [] e.code = "Backspace" -> pop(s)
           [] e.code = "Enter" -> <<>>
           [] e.code \in {"Esc", "Up", "Down"} -> s
           [] OTHER -> <<>>

\* the input buffer after the event is handled
input_after(e, s) ==
    IF e.type # "Key" THEN s
    ELSE CASE e.code = "Char" -> push(s, e.c)
           [] e.code = "Backspace" -> pop(s)
           [] e.code = "Enter" -> <<>>
           [] OTHER -> s

\* the selected index after the event is handled
selected_after(e, sel, len) ==
    IF e.type # "Key" THEN sel
    ELSE CASE e.code = "Up" -> move_up(sel)
           [] e.code = "Down" -> move_down(sel, len)
           [] OTHER -> sel

\* the ListState selection after the event is handled: select(Some(selected))
\* is called only inside the guards of Up and Down
state_after(e, sel, len, st) ==
    IF e.type = "Key" /\ e.code = "Up" /\ sel > 0 THEN move_up(sel)
    ELSE IF e.type = "Key" /\ e.code = "Down" /\ sel < len - 1 THEN move_down(sel, len)
    ELSE st

-----------------------------------------------------------------------------
(* The render pass *)

NoScreen == [highlight |-> -1, page |-> "", info |-> "", left |-> "", right |-> "", input |-> <<>>]

\* mutant: the page is looked up by the first entry
current_page_first(items, sel) == items[1][1]

\* menu_items[selected].0
current_page(items, sel) == items[sel + 1][1]

render(items, sel, st, inp) ==
    LET page == current_page(items, sel)
        texts == get_page_info(page)
    IN  [highlight |-> st, page |-> page, info |-> texts[1], left |-> texts[2],
         right |-> texts[3], input |-> inp]

-----------------------------------------------------------------------------
(* main *)

Init ==
    /\ pc = "enable_raw_mode"
    /\ result = "running"
    /\ rawMode = FALSE
    /\ altScreen = FALSE
    /\ mouseCapture = FALSE
    /\ menu_items = <<>>
    /\ selected = 0
    /\ state = -1
    /\ input = <<>>
    /\ screen = NoScreen
    /\ event = NoEvent
    /\ before = <<>>
    /\ prevEvent = NoEvent
    /\ prevBefore = <<>>

\* `?` on an Err: main returns the error of the named call
Fail(call) ==
    /\ pc' = "exit"
    /\ result' = call

loopVars == <<menu_items, selected, state, input, screen, event, before, prevEvent, prevBefore>>

termVars == <<rawMode, altScreen, mouseCapture>>

\* enable_raw_mode()?
EnableRawModeOk ==
    /\ pc = "enable_raw_mode"
    /\ rawMode' = TRUE
    /\ pc' = "enter_alternate_screen"
    /\ UNCHANGED <<result, altScreen, mouseCapture, loopVars>>

EnableRawModeErr ==
    /\ pc = "enable_raw_mode"
    /\ Fail("enable_raw_mode")
    /\ UNCHANGED <<termVars, loopVars>>

\* execute!(stdout, EnterAlternateScreen, EnableMouseCapture)?
EnterAlternateScreenOk ==
    /\ pc = "enter_alternate_screen"
    /\ altScreen' = TRUE
    /\ mouseCapture' = TRUE
    /\ pc' = "Terminal::new"
    /\ UNCHANGED <<result, rawMode, loopVars>>

\* a failed write may have passed either command to the terminal or none
EnterAlternateScreenErr ==
    /\ pc = "enter_alternate_screen"
    /\ \E a \in BOOLEAN, m \in BOOLEAN :
          /\ (m => a)
          /\ altScreen' = a
          /\ mouseCapture' = m
    /\ Fail("enter_alternate_screen")
    /\ UNCHANGED <<rawMode, loopVars>>

\* Terminal::new(backend)? and the set-up of lines 128-155
TerminalNewOk ==
    /\ pc = "Terminal::new"
    /\ menu_items' = build_menu_items
    /\ selected' = 0
    /\ state' = 0
    /\ input' = <<>>
    /\ pc' = "draw"
    /\ UNCHANGED <<result, termVars, screen, event, before, prevEvent, prevBefore>>

TerminalNewErr ==
    /\ pc = "Terminal::new"
    /\ Fail("Terminal::new")
    /\ UNCHANGED <<termVars, loopVars>>

\* terminal.draw(|f| ...)?
DrawOk ==
    /\ pc = "draw"
    /\ screen' = render(menu_items, selected, state, input)
    /\ pc' = "poll"
    /\ UNCHANGED <<result, termVars, menu_items, selected, state, input,
                   event, before, prevEvent, prevBefore>>

DrawErr ==
    /\ pc = "draw"
    /\ Fail("draw")
    /\ UNCHANGED <<termVars, loopVars>>

\* event::poll(100 ms)? returned true
PollReady ==
    /\ pc = "poll"
    /\ pc' = "read"
    /\ UNCHANGED <<result, termVars, loopVars>>

\* event::poll(100 ms)? returned false: next iteration
PollTimeout ==
    /\ pc = "poll"
    /\ pc' = "draw"
    /\ UNCHANGED <<result, termVars, loopVars>>

PollErr ==
    /\ pc = "poll"
    /\ Fail("poll")
    /\ UNCHANGED <<termVars, loopVars>>

\* event::read()? returned e, and the match on it
ReadEvent(e) ==
    /\ pc = "read"
    /\ (e.type = "Key" /\ e.code = "Char") => Len(input) < MaxInput
    /\ event' = e
    /\ before' = input
    /\ prevEvent' = event
    /\ prevBefore' = before
    /\ input' = input_after(e, input)
    /\ selected' = selected_after(e, selected, Len(menu_items))
    /\ state' = state_after(e, selected, Len(menu_items), state)
    /\ pc' = IF breaks(e) THEN "disable_raw_mode" ELSE "draw"
    /\ UNCHANGED <<result, termVars, menu_items, screen>>

ReadErr ==
    /\ pc = "read"
    /\ Fail("read")
    /\ UNCHANGED <<termVars, loopVars>>

\* disable_raw_mode()?
DisableRawModeOk ==
    /\ pc = "disable_raw_mode"
    /\ rawMode' = FALSE
    /\ pc' = "leave_alternate_screen"
    /\ UNCHANGED <<result, altScreen, mouseCapture, loopVars>>

DisableRawModeErr ==
    /\ pc = "disable_raw_mode"
    /\ Fail("disable_raw_mode")
    /\ UNCHANGED <<termVars, loopVars>>

\* execute!(terminal.backend_mut(), LeaveAlternateScreen, DisableMouseCapture)?
LeaveAlternateScreenOk ==
    /\ pc = "leave_alternate_screen"
    /\ altScreen' = FALSE
    /\ mouseCapture' = FALSE
    /\ pc' = "show_cursor"
    /\ UNCHANGED <<result, rawMode, loopVars>>

LeaveAlternateScreenErr ==
    /\ pc = "leave_alternate_screen"
    /\ \E a \in BOOLEAN, m \in BOOLEAN :
          /\ (~m => ~a)
          /\ altScreen' = a
          /\ mouseCapture' = m
    /\ Fail("leave_alternate_screen")
    /\ UNCHANGED <<rawMode, loopVars>>

\* terminal.show_cursor()?; Ok(())
ShowCursorOk ==
    /\ pc = "show_cursor"
    /\ pc' = "exit"
    /\ result' = "Ok"
    /\ UNCHANGED <<termVars, loopVars>>

ShowCursorErr ==
    /\ pc = "show_cursor"
    /\ Fail("show_cursor")
    /\ UNCHANGED <<termVars, loopVars>>

Next ==
    \/ EnableRawModeOk
    \/ EnableRawModeErr
    \/ EnterAlternateScreenOk
    \/ EnterAlternateScreenErr
    \/ TerminalNewOk
    \/ TerminalNewErr
    \/ DrawOk
    \/ DrawErr
    \/ PollReady
    \/ PollTimeout
    \/ PollErr
    \/ \E e \in Events : ReadEvent(e)
    \/ ReadErr
    \/ DisableRawModeOk
    \/ DisableRawModeErr
    \/ LeaveAlternateScreenOk
    \/ LeaveAlternateScreenErr
    \/ ShowCursorOk
    \/ ShowCursorErr

Spec == Init /\ [][Next]_vars

-----------------------------------------------------------------------------
(* Shared vocabulary of the properties *)

InLoop == pc \in {"draw", "poll", "read"}

\* the step reads event e and runs the match on it
Handled(e) == pc = "read" /\ pc' # "exit" /\ event' = e

AfterLoop == pc \in {"disable_raw_mode", "leave_alternate_screen", "show_cursor", "exit"}

LastIndex == Len(raw_menu_items) - 1

-----------------------------------------------------------------------------
(* C1: on every exit of main after raw mode and the alternate screen were  *)
(* entered (the Esc quit, or an error of Terminal::new, terminal.draw,     *)
(* event::poll or event::read), raw mode is off and the alternate screen   *)
(* is left.  The code returns through `?` without any teardown, so this    *)
(* fails on the error paths.                                               *)
C1_TerminalRestoredAtExit ==
    (pc = "exit" /\ result \in {"Ok", "Terminal::new", "draw", "poll", "read"})
        => (~rawMode /\ ~altScreen)

(* C2: in every state of the loop the selected index is within 0..18, the  *)
(* indices of menu_items, so menu_items[selected] is defined.              *)
C2_SelectedInBounds ==
    InLoop => /\ selected \in 0..18
              /\ selected + 1 \in DOMAIN menu_items

\* Down was handled at the last index
C2_Witness ==
    /\ pc = "draw"
    /\ event = KeyEvent("Down", "")
    /\ prevEvent = KeyEvent("Down", "")
    /\ selected = 18

(* C3: Up at index 0 and Down at the last index leave the index as it is;  *)
(* anywhere else Up subtracts exactly 1 and Down adds exactly 1.           *)
C3_UpDownClamped ==
    [][ /\ Handled(KeyEvent("Up", "")) =>
              selected' = (IF selected = 0 THEN 0 ELSE selected - 1)
        /\ Handled(KeyEvent("Down", "")) =>
              selected' = (IF selected = LastIndex THEN LastIndex ELSE selected + 1)
      ]_vars

\* the first key of the session was Up, at index 0, and a Down followed
C3_Witness ==
    /\ prevEvent = KeyEvent("Up", "")
    /\ prevBefore = <<>>
    /\ event = KeyEvent("Down", "")
    /\ selected = 1
    /\ pc = "poll"

(* C4: a Char(c) key followed at once by a Backspace key gives back the    *)
(* input buffer that was there before the Char key.                        *)
C4_PushPopRoundTrip ==
    (event = KeyEvent("Backspace", "") /\ prevEvent \in CharEvents)
        => input = prevBefore

\* "ab", then 'c', then Backspace
C4_Witness ==
    /\ event = KeyEvent("Backspace", "")
    /\ prevEvent = KeyEvent("Char", "c")
    /\ prevBefore = <<"a", "b">>
    /\ before = <<"a", "b", "c">>
    /\ pc = "draw"

(* C5: an Enter key empties the input buffer whatever it held and whatever *)
(* entry is selected, does not end the loop and keeps the selected index.  *)
C5_EnterClears ==
    [][ Handled(KeyEvent("Enter", "")) =>
            /\ input' = <<>>
            /\ pc' = "draw"
            /\ selected' = selected
      ]_vars

\* Enter was handled with a non-empty buffer, away from index 0
C5_Witness ==
    /\ event = KeyEvent("Enter", "")
    /\ before = <<"a", "b">>
    /\ input = <<>>
    /\ selected = 7
    /\ pc = "draw"

\* the colour classes of the 19 labels, written out
C6_Expected ==
    << <<"Home", "Gray">>, <<"Items", "Gray">>, <<"City", "Gray">>, <<"Job", "Gray">>,
       <<"Gym", "Gray">>, <<"Properties", "Gray">>, <<"Education", "Gray">>,
       <<"Crimes", "Red">>, <<"Missions", "Gray">>, <<"Newspaper", "Green">>,
       <<"Jail", "Red">>, <<"Hospital", "Red">>, <<"Casino", "Gray">>,
       <<"Forums", "Gray">>, <<"Hall of Fame", "Gray">>, <<"Faction", "Gray">>,
       <<"Recruit Citizens", "Gray">>, <<"Calendar", "Gray">>, <<"Rules", "Gray">> >>

(* C6: each of the 19 labels has one colour class: Red if important, else  *)
(* Green if unread, else Gray; "Crimes", in both sets, is Red.  The        *)
(* assignment is made at startup and no later step changes it.             *)
C6_ColourClasses ==
    /\ [](InLoop => menu_items = C6_Expected)
    /\ [][menu_items # <<>> => menu_items' = menu_items]_vars

\* the menu is built and keys have been handled
C6_Witness ==
    /\ menu_items # <<>>
    /\ menu_items[8] = <<"Crimes", "Red">>
    /\ menu_items[10] = <<"Newspaper", "Green">>
    /\ event = KeyEvent("Char", "a")
    /\ prevEvent = KeyEvent("Down", "")
    /\ pc = "poll"

(* C7: after every render pass the info, left and right panels show        *)
(* get_page_info of the label at the selected index and the highlighted    *)
(* entry is that index; at index 3 the panels show the "Job" page.         *)
C7_RenderShowsSelected ==
    pc \in {"poll", "read"} =>
        /\ screen.highlight = selected
        /\ screen.page = menu_items[selected + 1][1]
        /\ <<screen.info, screen.left, screen.right>> = get_page_info(screen.page)
        /\ selected = 3 =>
              /\ screen.page = "Job"
              /\ screen.info = "Check your current job, salary, and available tasks."
              /\ screen.left = "Job title and salary"
              /\ screen.right = "Current tasks"

\* Down keys took the index to 3 and the render that followed shows "Job"
C7_Witness ==
    /\ pc = "poll"
    /\ prevEvent = KeyEvent("Down", "")
    /\ event = KeyEvent("Down", "")
    /\ selected = 3
    /\ screen.highlight = 3
    /\ screen.left = "Job title and salary"

(* C8: absent I/O errors the loop ends when and only when an Esc key is    *)
(* handled: no other key, no non-key event and no poll timeout ends it,    *)
(* and after Esc no render pass runs and no event is read.                 *)
C8_EscOnlyQuits ==
    /\ [][Handled(KeyEvent("Esc", "")) => pc' = "disable_raw_mode"]_vars
    /\ [][(InLoop /\ ~InLoop' /\ pc' # "exit") =>
              (Handled(KeyEvent("Esc", "")) /\ pc' = "disable_raw_mode")]_vars
    /\ [][(InLoop /\ pc' = "exit") => result' \in {"draw", "poll", "read"}]_vars
    /\ [][AfterLoop => (AfterLoop' /\ screen' = screen /\ event' = event)]_vars

\* 'q' was typed and did not quit; Esc did, and main returned Ok
C8_Witness ==
    /\ pc = "exit"
    /\ result = "Ok"
    /\ event = KeyEvent("Esc", "")
    /\ prevEvent = KeyEvent("Enter", "")
    /\ prevBefore = <<"q">>

(* C9: Backspace on a non-empty buffer removes exactly the last character  *)
(* ("abc" becomes "ab"); on an empty buffer it leaves it empty, and in     *)
(* both cases the loop goes on without error.                              *)
C9_BackspaceRemovesLast ==
    [][ Handled(KeyEvent("Backspace", "")) =>
            /\ pc' = "draw"
            /\ input = <<>> => input' = <<>>
            /\ input # <<>> => input' \o <<input[Len(input)]>> = input
            /\ input = <<"a", "b", "c">> => input' = <<"a", "b">>
      ]_vars

\* "abc", Backspace, "ab"
C9_Witness ==
    /\ event = KeyEvent("Backspace", "")
    /\ before = <<"a", "b", "c">>
    /\ input = <<"a", "b">>
    /\ pc = "poll"

\* the step reads a key event whose code is none of `codes`
HandledKeyNotIn(codes) ==
    /\ pc = "read"
    /\ pc' # "exit"
    /\ event'.type = "Key"
    /\ event'.code \notin codes

\* the step reads an event that is not a key, or the poll times out
HandledNonKeyOrTimeout ==
    \/ \E t \in NonKeyTypes : Handled(NonKeyEvent(t))
    \/ (pc = "poll" /\ pc' \notin {"read", "exit"})

\* only Up and Down change the index, only Char, Backspace and Enter the buffer
FrameOfChanges ==
    /\ selected' # selected =>
           \E k \in {"Up", "Down"} : Handled(KeyEvent(k, ""))
    /\ input' # input =>
           \/ \E c \in Chars : Handled(KeyEvent("Char", c))
           \/ \E k \in {"Backspace", "Enter"} : Handled(KeyEvent(k, ""))

(* C10 as stated: only Up and Down keys change the selected index; only    *)
(* Char, Backspace and Enter keys change the input buffer; every other key *)
(* code, every non-key event and a poll timeout leave both unchanged, and  *)
(* the loop proceeds to the next render pass.  Esc is such a key code and  *)
(* breaks the loop, so this fails on the step that handles Esc.            *)
C10_FrameAsStated ==
    [][ /\ FrameOfChanges
        /\ (\/ HandledKeyNotIn({"Up", "Down", "Char", "Backspace", "Enter"})
            \/ HandledNonKeyOrTimeout)
              => (selected' = selected /\ input' = input /\ pc' = "draw")
      ]_vars

(* C10 amended: only Up and Down keys change the selected index; only      *)
(* Char, Backspace and Enter keys change the input buffer; every other key *)
(* code, every non-key event and a poll timeout leave both unchanged; the  *)
(* loop then proceeds to the next render pass, except after Esc, which     *)
(* ends the loop.                                                          *)
C10_Frame ==
    [][ /\ FrameOfChanges
        /\ (\/ HandledKeyNotIn({"Up", "Down", "Char", "Backspace", "Enter"})
            \/ HandledNonKeyOrTimeout)
              => (selected' = selected /\ input' = input)
        /\ (\/ HandledKeyNotIn({"Up", "Down", "Char", "Backspace", "Enter", "Esc"})
            \/ HandledNonKeyOrTimeout)
              => pc' = "draw"
        /\ Handled(KeyEvent("Esc", "")) => pc' = "disable_raw_mode"
      ]_vars

\* with text typed and the index moved, Tab and then Esc changed neither;
\* Tab was followed by a render pass, Esc ended the loop
C10_Witness ==
    /\ prevEvent = KeyEvent("Tab", "")
    /\ event = KeyEvent("Esc", "")
    /\ prevBefore = <<"a", "b">>
    /\ before = <<"a", "b">>
    /\ input = <<"a", "b">>
    /\ selected = 5
    /\ screen.highlight = 5
    /\ screen.input = <<"a", "b">>
    /\ pc = "disable_raw_mode"

====
